---- MODULE Spec2Model ----
(***************************************************************************)
(* Model of the deployment engine of vscode-ibmi (namespace Deployment)    *)
(* and of ConnectionManager.                                               *)
(*                                                                         *)
(* JavaScript runs every handler to its next `await` without interruption, *)
(* so each action below is one such run-to-suspension segment of a handler *)
(* (an await on a remote command, a file transfer, a stat or a prompt ends *)
(* a segment).  What the outside world answers (is a connection there, did *)
(* the transfer fail, what did the user pick) is drawn with \E.            *)
(***************************************************************************)
EXTENDS Integers, Sequences, FiniteSets, TLC

\* ------------------------------------------------------------------ bounds
\* Number of launchDeploy/deploy invocations that may be in flight at once.
MaxDeploys == 2
\* Number of `created` events whose stat() may be outstanding at once.
MaxPendingStats == 1
\* Number of calls of ConnectionManager.storeNew.
MaxStoreCalls == 3

Slots == 1..MaxDeploys

\* the calls of ConnectionManager.storeNew
StoreCalls == 1..MaxStoreCalls

\* the ConnectionData values given to storeNew
ConnectionDatas == {"dev", "prod"}

\* ------------------------------------------------------- values of the code
BUTTON_BASE == "$(cloud-upload) Deploy"
BUTTON_WORKING == "$(sync~spin) Deploying"

\* vscode.workspace.workspaceFolders
Workspaces == {"w1"}

\* A path is the sequence of its segments (relative to the workspace root).
FileA == <<"a.txt">>
FileB == <<"b.txt">>
GitHead == <<".git", "HEAD">>
Files == {FileA, FileB}
WatchedPaths == Files \cup {GitHead}

\* Segments whose text contains the substring ".git".
DotGitSegments == {".git", ".gitignore", ".github"}

\* uri.scheme of a watched resource; the last two are invalidFs.
Schemes == {"file", "member", "streamfile"}
invalidFs == {"member", "streamfile"}

\* The resources the file watcher reports events for.
Uris == [scheme : {"file"}, folder : Workspaces, path : WatchedPaths]
          \cup [scheme : invalidFs, folder : Workspaces, path : {FileA}]

\* A remote path is the sequence of its characters; '' and undefined, which
\* the code only ever tests for truthiness, are both the empty sequence.
Unset == <<>>
AbsolutePath == <<"/", "t">>
RelativePath == <<"t">>
RemotePaths == {AbsolutePath, RelativePath}

\* String.prototype.startsWith(`/`)
StartsWithSlash(p) == Len(p) > 0 /\ p[1] = "/"

Methods == {"changed", "staged", "unstaged", "compare", "all"}

\* parameters.ignoreRules: a set of gitignore patterns (each the name of a
\* file or directory, matched at any depth), or NoRules when the caller of
\* deploy passed none.
NoRules == {"<undefined>"}
DefaultRules == {".git"}
GitignoreRules == {".git", "b.txt", ".gitignore"}

\* ignoreRules.ignores(relative) for name patterns: a path is ignored when
\* one of its segments is named by a rule.
Ignores(rules, path) == \E i \in 1..Len(path) : path[i] \in rules

\* path.basename(uri.path).includes(`.`), for the files of the model.
BasenameHasDot(path) == path \in {FileA, FileB}

VARIABLES
    workspaceChanges,   \* [Workspaces -> SUBSET Files]: keys of the per-workspace map
    buttonText,         \* button.text
    deployment,         \* storage.getDeployment(): [Workspaces -> remote path]
    statPending,        \* created events whose stat() is outstanding (set of Uris)
    setLocation,        \* setDeployLocation awaiting its mkdir: <<>> or <<[folder, path]>>
    pc,                 \* [Slots -> place of the invocation]
    parameters,         \* [Slots -> DeploymentParameters]
    uploads,            \* [Slots -> SUBSET Files]: the list given to putFiles
    toDelete,           \* [Slots -> SUBSET Files]: compare's deletion list
    remoteLog,          \* [Slots -> Seq(remote operation)] issued by the invocation
    deployRet,          \* [Slots -> "none" | "pending" | "true" | "false"]
    launchRet,          \* [Slots -> "none" | "pending" | "index" | "undefined" | "error"]
    failure,            \* [Slots -> the error of the "Deployment failed" log line, or "none"]
    failedTicks,        \* [Slots -> SUBSET Files]: the files putDirectory's tick
                        \* callback logged as FAILED
    pendingAtStart,     \* [Slots -> SUBSET Files]: while deploy is in flight, the
                        \* pending set as it was when deploy was entered
    lastEvent,          \* [Uris -> kind of the last watch event delivered for the
                        \* resource]: history kept by the specification of the watcher
    connections,        \* the setting `connections` as GlobalConfiguration.get
                        \* reads it: Seq(ConnectionData)
    storing,            \* [StoreCalls -> the call of storeNew: its place, its
                        \* argument, its local list and its newId]
    setAllQueue         \* the calls whose configuration update is outstanding,
                        \* in the order the updates were requested

slotVars == <<pc, parameters, uploads, toDelete, remoteLog, deployRet, launchRet, failure,
              failedTicks, pendingAtStart>>
storeVars == <<connections, storing, setAllQueue>>
vars == <<workspaceChanges, buttonText, deployment, statPending, setLocation, slotVars,
          lastEvent, storeVars>>

\* a call of storeNew that has not been made
NotStoring == [pc |-> "idle", data |-> "none", connections |-> <<>>, newId |-> 0]

NoParameters == [workspaceFolder |-> "none", remotePath |-> Unset, method |-> "none",
                 ignoreRules |-> NoRules]

\* The state after initialize, with `stored` the deploy locations persisted
\* by earlier sessions.
InitWith(stored) ==
    /\ workspaceChanges = [w \in Workspaces |-> {}]
    /\ buttonText = BUTTON_BASE
    /\ deployment = stored
    /\ statPending = {}
    /\ setLocation = <<>>
    /\ pc = [d \in Slots |-> "idle"]
    /\ parameters = [d \in Slots |-> NoParameters]
    /\ uploads = [d \in Slots |-> {}]
    /\ toDelete = [d \in Slots |-> {}]
    /\ remoteLog = [d \in Slots |-> <<>>]
    /\ deployRet = [d \in Slots |-> "none"]
    /\ launchRet = [d \in Slots |-> "none"]
    /\ failure = [d \in Slots |-> "none"]
    /\ failedTicks = [d \in Slots |-> {}]
    /\ pendingAtStart = [d \in Slots |-> {}]
    /\ lastEvent = [uri \in Uris |-> "none"]
    /\ connections = <<>>
    /\ storing = [c \in StoreCalls |-> NotStoring]
    /\ setAllQueue = <<>>

Init == InitWith([w \in Workspaces |-> Unset])

\* ------------------------------------------------------------ file watcher
\* uri.fsPath: the workspace root followed by the path below it.
FsPath(uri) == <<"home", uri.folder>> \o uri.path

\* uri.fsPath.includes(`.git`)
IncludesDotGit(p) == \E i \in 1..Len(p) : p[i] \in DotGitSegments

\* every resource given a map
HasChangesMapAny(uri) == TRUE

\* getChangesMap(uri) returns a map (and not undefined)
HasChangesMap(uri) == uri.scheme \notin invalidFs /\ ~IncludesDotGit(FsPath(uri))

\* getChangesMap(uri)?.set(uri.fsPath, uri)
SetChange(uri) ==
    IF HasChangesMap(uri)
    THEN [workspaceChanges EXCEPT ![uri.folder] = @ \cup {uri.path}]
    ELSE workspaceChanges

\* getChangesMap(uri)?.delete(uri.fsPath)
DeleteChange(uri) ==
    IF HasChangesMap(uri)
    THEN [workspaceChanges EXCEPT ![uri.folder] = @ \ {uri.path}]
    ELSE workspaceChanges

\* watcher.onDidChange
OnDidChange(uri) ==
    /\ workspaceChanges' = SetChange(uri)
    /\ UNCHANGED <<buttonText, deployment, statPending, setLocation, slotVars>>

\* watcher.onDidCreate up to `await vscode.workspace.fs.stat(uri)`
OnDidCreate(uri) ==
    /\ uri \notin statPending
    /\ Cardinality(statPending) < MaxPendingStats
    /\ statPending' = statPending \cup {uri}
    /\ UNCHANGED <<workspaceChanges, buttonText, deployment, setLocation, slotVars>>

\* whatever stat reported
IsAnyFileType(fileType) == fileType # "Error"

\* `fileStat.type === vscode.FileType.File`
IsRegularFile(fileType) == fileType = "File"

\* watcher.onDidCreate after the stat: fileType is what stat reported
\* ("Error": stat rejected and the handler ends there).
OnDidCreateStat(uri, fileType) ==
    /\ uri \in statPending
    /\ statPending' = statPending \ {uri}
    /\ workspaceChanges' = IF IsRegularFile(fileType) THEN SetChange(uri) ELSE workspaceChanges
    /\ UNCHANGED <<buttonText, deployment, setLocation, slotVars>>

\* watcher.onDidDelete
OnDidDelete(uri) ==
    /\ workspaceChanges' = DeleteChange(uri)
    /\ UNCHANGED <<buttonText, deployment, statPending, setLocation, slotVars>>

\* ------------------------------------------------------- setDeployLocation
\* setDeployLocation up to `await createRemoteDirectory(path)`: `path` is
\* node.path or what the user typed into the input box, stored as typed.
\* Nothing happens for an empty path; without a connection getConnection()
\* throws and the call ends.
SetDeployLocation(folder, path, connected) ==
    /\ setLocation = <<>>
    /\ path # Unset
    /\ setLocation' = IF connected THEN <<[folder |-> folder, path |-> path]>> ELSE <<>>
    /\ UNCHANGED <<workspaceChanges, buttonText, deployment, statPending, slotVars>>

\* existingPaths[chosenWorkspaceFolder.uri.fsPath] = path
StoredLocation(folder, path) == [deployment EXCEPT ![folder] = path]

\* setDeployLocation after the mkdir: the path is persisted (nothing is when
\* the command rejected).  "Deploy now" then runs launchDeploy, which is the
\* action LaunchDeploy.
SetDeployLocationStore(ok) ==
    /\ setLocation # <<>>
    /\ deployment' = IF ok THEN StoredLocation(setLocation[1].folder, setLocation[1].path)
                     ELSE deployment
    /\ setLocation' = <<>>
    /\ UNCHANGED <<workspaceChanges, buttonText, statPending, slotVars>>

\* ------------------------------------------------------------------ deploy
\* the clear left out
ChangesAfterDeployNoClear(folder, ok) == workspaceChanges

\* the maps of all workspaces cleared
ChangesAfterDeployClearAll(folder, ok) ==
    IF ok THEN [w \in DOMAIN workspaceChanges |-> {}] ELSE workspaceChanges

\* the clear done in the finally block, whatever the outcome
ChangesAfterDeployAlwaysClear(folder, ok) == [workspaceChanges EXCEPT ![folder] = {}]

\* workspaceChanges.get(parameters.workspaceFolder)?.clear(), on the path
\* that returns true only
ChangesAfterDeploy(folder, ok) ==
    IF ok THEN [workspaceChanges EXCEPT ![folder] = {}] ELSE workspaceChanges

\* no reset of the button
ButtonAfterDeployKept == buttonText

\* finally { button.text = BUTTON_BASE }
ButtonAfterDeploy == BUTTON_BASE

\* The errors thrown inside deploy; Rejected stands for the error a remote
\* command or a transfer rejects with.
NotConnected == "Please connect to an IBM i"
InvalidPath == "Invalid deployment path"
NoUploadTarget == "Unable to determine where to upload workspace."
NoRepositories == "No repositories are open."
NoRepository == "No repository found"
NoMd5sum == "Cannot synchronize using MD5 comparison"
Rejected == "rejected"

\* deploy returns to its caller, true when no error was thrown (error =
\* "none") and false, after logging the error, otherwise; launchDeploy, when
\* it is the caller, resumes in the same turn and returns folder.index or
\* undefined.
\* the lack of a connection not caught
DeployResultUncaught(error) ==
    IF error = "none" THEN "true" ELSE IF error = NotConnected THEN "threw" ELSE "false"

\* `return true` at the end of the try block, `return false` in the catch
DeployResult(error) == IF error = "none" THEN "true" ELSE "false"

Returns(d, folder, error, viaLaunch) ==
    LET ok == error = "none" IN
    /\ failure' = [failure EXCEPT ![d] = error]
    /\ pendingAtStart' = [pendingAtStart EXCEPT ![d] = {}]
    /\ workspaceChanges' = ChangesAfterDeploy(folder, ok)
    /\ buttonText' = ButtonAfterDeploy
    /\ pc' = [pc EXCEPT ![d] = "idle"]
    /\ deployRet' = [deployRet EXCEPT ![d] = DeployResult(error)]
    /\ launchRet' = [launchRet EXCEPT ![d] =
                        IF viaLaunch THEN (IF ok THEN "index" ELSE "undefined") ELSE "none"]

ViaLaunch(d) == launchRet[d] = "pending"

\* an error is thrown inside deploy's try block: caught, deploy returns false
Fails(d, error) ==
    /\ Returns(d, parameters[d].workspaceFolder, error, ViaLaunch(d))
    /\ UNCHANGED <<remoteLog, failedTicks>>

Throws(d, error) == Fails(d, error) /\ UNCHANGED <<uploads, toDelete>>

\* the strategy ran to its end: deploy returns true
Succeeds(d) ==
    /\ Returns(d, parameters[d].workspaceFolder, "none", ViaLaunch(d))
    /\ UNCHANGED <<uploads, toDelete, remoteLog, failedTicks>>

\* the invocation suspends at `place`
Awaits(d, place) ==
    /\ pc' = [pc EXCEPT ![d] = place]
    /\ UNCHANGED <<workspaceChanges, buttonText, deployRet, launchRet, failure, failedTicks,
                   pendingAtStart>>

\* a remote operation is handed to the connection
Issue(d, op) == remoteLog' = [remoteLog EXCEPT ![d] = Append(@, op)]

\* the operation started and not awaited
SendsUnawaited(d, op, place) ==
    \E connected \in BOOLEAN :
        IF connected THEN Issue(d, op) /\ Awaits(d, pc[d]) ELSE Fails(d, NotConnected)

\* getConnection().sendCommand(...): getConnection throws without a connection
Sends(d, op, place) ==
    \E connected \in BOOLEAN :
        IF connected THEN Issue(d, op) /\ Awaits(d, place) ELSE Fails(d, NotConnected)

SendCommand(d, op, place) == Sends(d, op, place) /\ UNCHANGED <<uploads, toDelete>>

\* deploy(parameters) up to `await createRemoteDirectory(parameters.remotePath)`
DeployEnter(d, params, connected, viaLaunch) ==
    /\ parameters' = [parameters EXCEPT ![d] = params]
    /\ uploads' = [uploads EXCEPT ![d] = {}]
    /\ toDelete' = [toDelete EXCEPT ![d] = {}]
    /\ failedTicks' = [failedTicks EXCEPT ![d] = {}]
    /\ IF connected
       THEN /\ remoteLog' = [remoteLog EXCEPT ![d] = <<"mkdir">>]
            /\ pendingAtStart' = [pendingAtStart EXCEPT ![d] =
                                        workspaceChanges[params.workspaceFolder]]
            /\ buttonText' = BUTTON_WORKING
            /\ pc' = [pc EXCEPT ![d] = "mkdir"]
            /\ deployRet' = [deployRet EXCEPT ![d] = "pending"]
            /\ launchRet' = [launchRet EXCEPT ![d] = IF viaLaunch THEN "pending" ELSE "none"]
            /\ failure' = [failure EXCEPT ![d] = "none"]
            /\ UNCHANGED workspaceChanges
       ELSE /\ remoteLog' = [remoteLog EXCEPT ![d] = <<>>]
            /\ Returns(d, params.workspaceFolder, NotConnected, viaLaunch)

\* the exported deploy called directly, with the caller's parameters
Deploy(d, params, connected) ==
    /\ pc[d] = "idle"
    /\ DeployEnter(d, params, connected, FALSE)
    /\ UNCHANGED <<deployment, statPending, setLocation>>

\* ------------------------------------------------------------ launchDeploy
\* the test left out
ConfiguredAlways(remotePath) == TRUE

\* `if (remotePath)`
Configured(remotePath) == remotePath # Unset

\* launchDeploy up to its first await: the folder is resolved and its remote
\* path read from the storage; the ignore rules are `.git` plus, when the
\* workspace has a .gitignore, its lines and `**/.gitignore`.  (A launch
\* that resolves no folder returns at once and changes nothing.)
LaunchDeploy(d, folder, hasGitignore) ==
    /\ pc[d] = "idle"
    /\ pc' = [pc EXCEPT ![d] = "launch"]
    /\ parameters' = [parameters EXCEPT ![d] =
            [workspaceFolder |-> folder, remotePath |-> deployment[folder], method |-> "none",
             ignoreRules |-> IF hasGitignore THEN GitignoreRules ELSE DefaultRules]]
    /\ launchRet' = [launchRet EXCEPT ![d] = "pending"]
    /\ deployRet' = [deployRet EXCEPT ![d] = "none"]
    /\ failure' = [failure EXCEPT ![d] = "none"]
    /\ uploads' = [uploads EXCEPT ![d] = {}]
    /\ toDelete' = [toDelete EXCEPT ![d] = {}]
    /\ failedTicks' = [failedTicks EXCEPT ![d] = {}]
    /\ remoteLog' = [remoteLog EXCEPT ![d] = <<>>]
    /\ pendingAtStart' = [pendingAtStart EXCEPT ![d] = {}]
    /\ UNCHANGED <<workspaceChanges, buttonText, deployment, statPending, setLocation>>

\* launchDeploy returns without having called deploy
LaunchEnds(d, ret) ==
    /\ pc' = [pc EXCEPT ![d] = "idle"]
    /\ launchRet' = [launchRet EXCEPT ![d] = ret]
    /\ UNCHANGED <<workspaceChanges, buttonText, parameters, uploads, toDelete, remoteLog,
                   deployRet, failure, failedTicks, pendingAtStart>>

\* The methods the quick pick offers.
OfferedMethods(md5sum, gitApi) ==
    {"changed", "all"} \cup (IF md5sum THEN {"compare"} ELSE {})
                       \cup (IF gitApi THEN {"unstaged", "staged"} ELSE {})

\* launchDeploy from `if (remotePath)` on: with a remote path the user picks
\* a method (or dismisses the quick pick: "cancel") and deploy is entered;
\* without one an error message is shown and launchDeploy returns undefined
\* (its "Set deploy location" button runs setDeployLocation, the action
\* SetDeployLocation).  getConnection() at the head of the method list
\* throws without a connection.  The update of config.homeDirectory before
\* deploy touches nothing deploy reads.
LaunchMethods(d, connected, md5sum, gitApi, method) ==
    /\ pc[d] = "launch"
    /\ IF Configured(parameters[d].remotePath)
       THEN IF ~connected
            THEN LaunchEnds(d, "error")
            ELSE IF method \notin OfferedMethods(md5sum, gitApi)
                 THEN LaunchEnds(d, "undefined")
                 ELSE \E deployConnected \in BOOLEAN :
                        DeployEnter(d, [parameters[d] EXCEPT !.method = method],
                                    deployConnected, TRUE)
       ELSE LaunchEnds(d, "undefined")
    /\ UNCHANGED <<deployment, statPending, setLocation>>

\* -------------------------------------------------------------- strategies
\* getClient().putFiles(uploads, ...): getClient throws without a client
PutFiles(d, files) ==
    /\ uploads' = [uploads EXCEPT ![d] = files]
    /\ UNCHANGED toDelete
    /\ Sends(d, "putFiles", "putFiles")

\* the pending set as it was when deploy was entered
ChangesSnapshotAtStart(d) == pendingAtStart[d]

\* workspaceChanges.get(parameters.workspaceFolder), read when deployChanged runs
ChangesSnapshot(d) == workspaceChanges[parameters[d].workspaceFolder]

\* the filter of deployChanged: with ignore rules a path is kept unless the
\* rules ignore it; without rules it is kept unless its basename has a dot
KeepsChanged(rules, path) ==
    IF path # <<>> /\ rules # NoRules THEN ~Ignores(rules, path) ELSE ~BasenameHasDot(path)

deployChanged(d) ==
    LET changes == ChangesSnapshot(d)
        changedFiles == {f \in changes : KeepsChanged(parameters[d].ignoreRules, f)}
    IN  IF changes # {} THEN PutFiles(d, changedFiles) ELSE Succeeds(d)

\* Status of the git extension's API (git.d.ts): the codes of a change.
Status_DELETED == 6
IndexStatuses == {0, 2}                 \* INDEX_MODIFIED, INDEX_DELETED
WorkingStatuses == {5, Status_DELETED}  \* MODIFIED, DELETED

\* change lists over `files`: file -> status
ChangeLists(files, statuses) == UNION {[S -> statuses] : S \in SUBSET files}

\* what Tools.getGitAPI() shows: repositories is "none" (no API or no
\* repository), "other" (none rooted at the workspace) or "workspace"
GitStates(files) ==
    [repositories : {"none", "other", "workspace"},
     indexChanges : ChangeLists(files, IndexStatuses),
     workingTreeChanges : ChangeLists(files, WorkingStatuses)]

\* gitFiles.filter(change => change.status !== 6)
NotDeleted(changes) == {f \in DOMAIN changes : changes[f] # Status_DELETED}

\* no git API, or no repository open
NoGit == [repositories |-> "none", indexChanges |-> <<>>, workingTreeChanges |-> <<>>]

deployGit(d, changeType, git) ==
    IF git.repositories = "workspace"
    THEN LET gitFiles == NotDeleted(IF changeType = "staged" THEN git.indexChanges
                                    ELSE git.workingTreeChanges)
         IN  IF gitFiles # {}
             THEN IF StartsWithSlash(parameters[d].remotePath)
                  THEN PutFiles(d, gitFiles)
                  ELSE Throws(d, NoUploadTarget)
             ELSE Succeeds(d)
    ELSE IF git.repositories = "other" THEN Throws(d, NoRepository)
    ELSE Throws(d, NoRepositories)

\* any path accepted
ValidDeployAllPathAny(remotePath) == TRUE

\* `if (parameters.remotePath.startsWith('/'))` of deployAll
ValidDeployAllPath(remotePath) == StartsWithSlash(remotePath)

deployAll(d) ==
    IF ValidDeployAllPath(parameters[d].remotePath)
    THEN Sends(d, "putDirectory", "putDirectory") /\ UNCHANGED <<uploads, toDelete>>
    ELSE Throws(d, InvalidPath)

\* the test of remoteFeatures.md5sum left out
deployCompareUnchecked(d, md5sum) == SendCommand(d, "ls", "ls")

\* deployCompare up to the `ls | wc -l` command
deployCompare(d, md5sum) ==
    IF md5sum THEN SendCommand(d, "ls", "ls") ELSE Throws(d, NoMd5sum)

\* createRemoteDirectory answered: the switch of deploy runs the strategy
MkdirDone(d, ok, md5sum, git) ==
    /\ pc[d] = "mkdir"
    /\ IF ~ok
       THEN Throws(d, Rejected)
       ELSE CASE parameters[d].method = "unstaged" -> deployGit(d, "working", git)
              [] parameters[d].method = "staged" -> deployGit(d, "staged", git)
              [] parameters[d].method = "changed" -> deployChanged(d)
              [] parameters[d].method = "compare" -> deployCompare(d, md5sum)
              [] parameters[d].method = "all" -> deployAll(d)
    /\ UNCHANGED <<deployment, statPending, setLocation, parameters>>

\* the md5 listing asked for an empty directory too
CompareWhenEmptyListing(d) == SendCommand(d, "md5sum", "md5sum")

\* `if (isEmpty) { ...; await deployAll(parameters) }`
CompareWhenEmpty(d) == deployAll(d)

\* `ls | wc -l` answered: an empty remote directory switches to deployAll
LsDone(d, ok, isEmpty) ==
    /\ pc[d] = "ls"
    /\ IF ~ok THEN Throws(d, Rejected)
       ELSE IF isEmpty THEN CompareWhenEmpty(d)
       ELSE SendCommand(d, "md5sum", "md5sum")
    /\ UNCHANGED <<deployment, statPending, setLocation, parameters>>

\* the files findFiles returns: the local files the ignore rules keep
LocalFiles(local, rules) ==
    {f \in DOMAIN local : rules = NoRules \/ ~Ignores(rules, f)}

\* a differing hash overlooked
CompareUploadsMissingOnly(local, remote, rules) ==
    {f \in LocalFiles(local, rules) : f \notin DOMAIN remote}

\* uploads: local files with no remote entry or another hash
CompareUploads(local, remote, rules) ==
    {f \in LocalFiles(local, rules) : f \notin DOMAIN remote \/ remote[f] # local[f]}

\* toDelete: remote entries matching no local file
CompareDeletions(local, remote, rules) ==
    {f \in DOMAIN remote : f \notin LocalFiles(local, rules)}

\* the upload started without creating the folders
CompareUploadNoFolders(d, ups) ==
    IF ups # {} THEN Sends(d, "putFiles", "putFiles") ELSE Sends(d, "rmdir", "rmdir")

\* `if (uploads.length)` of deployCompare: the folders are created, or the
\* pruning pass is next
CompareUpload(d, ups) ==
    IF ups # {} THEN Sends(d, "mkdirs", "mkdirs") ELSE Sends(d, "rmdir", "rmdir")

\* the md5sum listing answered (remote: path -> hash); the local files are
\* enumerated and hashed (local: path -> hash) and the plan is made
Md5sumDone(d, ok, local, remote) ==
    /\ pc[d] = "md5sum"
    /\ IF ~ok THEN Throws(d, Rejected)
       ELSE LET ups == CompareUploads(local, remote, parameters[d].ignoreRules)
                dels == CompareDeletions(local, remote, parameters[d].ignoreRules)
            IN  /\ uploads' = [uploads EXCEPT ![d] = ups]
                /\ toDelete' = [toDelete EXCEPT ![d] = dels]
                /\ IF dels # {} THEN Sends(d, "rm", "rm") ELSE CompareUpload(d, ups)
    /\ UNCHANGED <<deployment, statPending, setLocation, parameters>>

\* `rm -f` answered
RmDone(d, ok) ==
    /\ pc[d] = "rm"
    /\ IF ~ok THEN Throws(d, Rejected)
       ELSE CompareUpload(d, uploads[d]) /\ UNCHANGED <<uploads, toDelete>>
    /\ UNCHANGED <<deployment, statPending, setLocation, parameters>>

\* the batched `mkdir -p` answered
MkdirsDone(d, ok) ==
    /\ pc[d] = "mkdirs"
    /\ IF ~ok THEN Throws(d, Rejected) ELSE PutFiles(d, uploads[d])
    /\ UNCHANGED <<deployment, statPending, setLocation, parameters>>

\* putFiles answered (it rejects when a transfer failed)
PutFilesDone(d, ok) ==
    /\ pc[d] = "putFiles"
    /\ IF ~ok THEN Throws(d, Rejected)
       ELSE IF parameters[d].method = "compare"
       THEN SendCommand(d, "rmdir", "rmdir")
       ELSE Succeeds(d)
    /\ UNCHANGED <<deployment, statPending, setLocation, parameters>>

\* failed file transfers turned into an error
BulkOutcomeStrict(failed) == IF failed # {} THEN Rejected ELSE "none"

\* what deployAll throws after putDirectory resolved: nothing, the boolean
\* putDirectory resolves with is not looked at and tick only logs
BulkOutcome(failed) == "none"

\* putDirectory answered: it resolved (ok), having called tick with an error
\* for the files in `failed` and without one for the others, or it rejected
PutDirectoryDone(d, ok, failed) ==
    /\ pc[d] = "putDirectory"
    /\ failedTicks' = [failedTicks EXCEPT ![d] = failed]
    /\ Returns(d, parameters[d].workspaceFolder,
               IF ok THEN BulkOutcome(failed) ELSE Rejected, ViaLaunch(d))
    /\ UNCHANGED <<uploads, toDelete, remoteLog>>
    /\ UNCHANGED <<deployment, statPending, setLocation, parameters>>

\* the pruning `find ... rmdir` answered
RmdirDone(d, ok) ==
    /\ pc[d] = "rmdir"
    /\ IF ok THEN Succeeds(d) ELSE Throws(d, Rejected)
    /\ UNCHANGED <<deployment, statPending, setLocation, parameters>>

\* ------------------------------------------------------- the specification
FileTypes == {"File", "Directory", "Error"}

\* One workspace, one invocation at a time: the orchestrator with the file
\* watcher and the persisted deploy location.
SpecTrees == UNION {[S -> {"H1", "H2"}] : S \in SUBSET {FileA}}

\* the resources of Uris that are files on disk outside .git
FileUris == [scheme : {"file"}, folder : Workspaces, path : Files]

Watch ==
    \/ \E uri \in Uris : OnDidChange(uri)
    \/ \E uri \in FileUris : OnDidCreate(uri)
    \/ \E uri \in FileUris, t \in FileTypes : OnDidCreateStat(uri, t)
    \/ \E uri \in Uris : OnDidDelete(uri)

Locate ==
    \/ \E w \in Workspaces, p \in RemotePaths, c \in BOOLEAN : SetDeployLocation(w, p, c)
    \/ \E ok \in BOOLEAN : SetDeployLocationStore(ok)

\* parameters of a direct call of deploy: no ignore rules
DirectParameters ==
    [workspaceFolder : Workspaces, remotePath : RemotePaths, method : Methods,
     ignoreRules : {NoRules}]

NoneInFlight == \A e \in Slots : pc[e] = "idle"

Transfer(d) ==
    \/ \E ok, e \in BOOLEAN : LsDone(d, ok, e)
    \/ \E ok \in BOOLEAN, l, r \in SpecTrees : Md5sumDone(d, ok, l, r)
    \/ \E ok \in BOOLEAN : RmDone(d, ok)
    \/ \E ok \in BOOLEAN : MkdirsDone(d, ok)
    \/ \E ok \in BOOLEAN : PutFilesDone(d, ok)
    \/ \E ok \in BOOLEAN, failed \in SUBSET {FileA} : PutDirectoryDone(d, ok, failed)
    \/ \E ok \in BOOLEAN : RmdirDone(d, ok)

Progress(d) ==
    \/ \E c, m, g \in BOOLEAN, method \in Methods \cup {"cancel"} :
            LaunchMethods(d, c, m, g, method)
    \/ \E ok, m \in BOOLEAN, git \in GitStates({FileA}) : MkdirDone(d, ok, m, git)
    \/ Transfer(d)

\* (the history of the watch events is not recorded here)
Next ==
    \/ Watch /\ UNCHANGED <<lastEvent, storeVars>>
    \/ Locate /\ UNCHANGED <<lastEvent, storeVars>>
    \/ \E w \in Workspaces, g \in BOOLEAN :
            NoneInFlight /\ LaunchDeploy(1, w, g) /\ UNCHANGED <<lastEvent, storeVars>>
    \/ \E p \in DirectParameters, c \in BOOLEAN :
            NoneInFlight /\ Deploy(1, p, c) /\ UNCHANGED <<lastEvent, storeVars>>
    \/ \E d \in Slots : Progress(d) /\ UNCHANGED <<lastEvent, storeVars>>

Spec == Init /\ [][Next]_vars

\* Several invocations in flight at once, for a workspace whose deploy
\* location is set: launchDeploy run again (from the command, the button or
\* "Deploy now") before the earlier run has ended, while a file changes and
\* is deleted.
InitConcurrent == \E stored \in [Workspaces -> RemotePaths] : InitWith(stored)

\* the lowest free slot takes the next invocation
FreeSlot(d) == pc[d] = "idle" /\ \A e \in Slots : e < d => pc[e] # "idle"

NextConcurrent ==
    \/ \E w \in Workspaces :
            OnDidChange([scheme |-> "file", folder |-> w, path |-> FileA]) /\ UNCHANGED <<lastEvent, storeVars>>
    \/ \E w \in Workspaces :
            OnDidDelete([scheme |-> "file", folder |-> w, path |-> FileA]) /\ UNCHANGED <<lastEvent, storeVars>>
    \/ \E d \in Slots, w \in Workspaces :
            FreeSlot(d) /\ LaunchDeploy(d, w, FALSE) /\ UNCHANGED <<lastEvent, storeVars>>
    \/ \E d \in Slots, c \in BOOLEAN, method \in {"changed", "all", "cancel"} :
            LaunchMethods(d, c, FALSE, FALSE, method) /\ UNCHANGED <<lastEvent, storeVars>>
    \/ \E d \in Slots, ok \in BOOLEAN : MkdirDone(d, ok, FALSE, NoGit) /\ UNCHANGED <<lastEvent, storeVars>>
    \/ \E d \in Slots, ok \in BOOLEAN : PutFilesDone(d, ok) /\ UNCHANGED <<lastEvent, storeVars>>
    \/ \E d \in Slots, ok \in BOOLEAN : PutDirectoryDone(d, ok, {}) /\ UNCHANGED <<lastEvent, storeVars>>

SpecConcurrent == InitConcurrent /\ [][NextConcurrent]_vars

\* The file watcher on its own: every kind of event for every resource, with
\* the kind of the last event delivered for each resource recorded.
Delivers(uri, kind) == lastEvent' = [lastEvent EXCEPT ![uri] = kind]

NextWatcher ==
    \/ \E uri \in Uris : OnDidChange(uri) /\ Delivers(uri, "changed") /\ UNCHANGED storeVars
    \/ \E uri \in Uris : OnDidCreate(uri) /\ Delivers(uri, "created") /\ UNCHANGED storeVars
    \/ \E uri \in Uris, t \in FileTypes : OnDidCreateStat(uri, t) /\ UNCHANGED <<lastEvent, storeVars>>
    \/ \E uri \in Uris : OnDidDelete(uri) /\ Delivers(uri, "deleted") /\ UNCHANGED storeVars

SpecWatcher == Init /\ [][NextWatcher]_vars

\* A multi-root workspace: two folders, each with its deploy location set,
\* files changing, created and deleted in both, and one invocation at a time
\* deploying either folder with the strategy "changed" or "all".
TwoWorkspaces == {"w1", "w2"}

InitWorkspaces ==
    /\ workspaceChanges = [w \in TwoWorkspaces |-> {}]
    /\ buttonText = BUTTON_BASE
    /\ deployment = [w \in TwoWorkspaces |-> AbsolutePath]
    /\ statPending = {}
    /\ setLocation = <<>>
    /\ pc = [d \in Slots |-> "idle"]
    /\ parameters = [d \in Slots |-> NoParameters]
    /\ uploads = [d \in Slots |-> {}]
    /\ toDelete = [d \in Slots |-> {}]
    /\ remoteLog = [d \in Slots |-> <<>>]
    /\ deployRet = [d \in Slots |-> "none"]
    /\ launchRet = [d \in Slots |-> "none"]
    /\ failure = [d \in Slots |-> "none"]
    /\ failedTicks = [d \in Slots |-> {}]
    /\ pendingAtStart = [d \in Slots |-> {}]
    /\ lastEvent = [uri \in Uris |-> "none"]
    /\ connections = <<>>
    /\ storing = [c \in StoreCalls |-> NotStoring]
    /\ setAllQueue = <<>>

\* the files of the two folders
WorkspaceUris == [scheme : {"file"}, folder : TwoWorkspaces, path : Files]

NextWorkspaces ==
    \/ \E uri \in WorkspaceUris : OnDidChange(uri) /\ UNCHANGED <<lastEvent, storeVars>>
    \/ \E uri \in WorkspaceUris : OnDidCreate(uri) /\ UNCHANGED <<lastEvent, storeVars>>
    \/ \E uri \in WorkspaceUris, t \in FileTypes :
            OnDidCreateStat(uri, t) /\ UNCHANGED <<lastEvent, storeVars>>
    \/ \E uri \in WorkspaceUris : OnDidDelete(uri) /\ UNCHANGED <<lastEvent, storeVars>>
    \/ \E w \in TwoWorkspaces :
            NoneInFlight /\ LaunchDeploy(1, w, FALSE) /\ UNCHANGED <<lastEvent, storeVars>>
    \/ \E c \in BOOLEAN, method \in {"changed", "all"} :
            LaunchMethods(1, c, FALSE, FALSE, method) /\ UNCHANGED <<lastEvent, storeVars>>
    \/ \E ok \in BOOLEAN : MkdirDone(1, ok, FALSE, NoGit) /\ UNCHANGED <<lastEvent, storeVars>>
    \/ \E ok \in BOOLEAN : PutFilesDone(1, ok) /\ UNCHANGED <<lastEvent, storeVars>>
    \/ \E ok \in BOOLEAN : PutDirectoryDone(1, ok, {}) /\ UNCHANGED <<lastEvent, storeVars>>

SpecWorkspaces == InitWorkspaces /\ [][NextWorkspaces]_vars

\* The compare strategy over local trees of a.txt and b.txt and remote
\* listings of a.txt, b.txt and c.txt: a tree maps relative path to md5.
FileC == <<"c.txt">>
Hashes == {"H1", "H2", "H3"}
TreesOver(files) == UNION {[S -> Hashes] : S \in SUBSET files}
LocalTrees == TreesOver({FileA, FileB})
\* the listing of a remote directory that holds at least one file
RemoteListings == TreesOver({FileA, FileB, FileC}) \ {<<>>}

InitCompare == InitWith([w \in Workspaces |-> AbsolutePath])

\* deploy called directly for the compare strategy, without ignore rules
DirectCompare ==
    [workspaceFolder |-> "w1", remotePath |-> AbsolutePath, method |-> "compare",
     ignoreRules |-> NoRules]

NextCompare ==
    \/ \E g \in BOOLEAN : NoneInFlight /\ LaunchDeploy(1, "w1", g) /\ UNCHANGED <<lastEvent, storeVars>>
    \/ \E c, m \in BOOLEAN : LaunchMethods(1, c, m, FALSE, "compare") /\ UNCHANGED <<lastEvent, storeVars>>
    \/ \E c \in BOOLEAN : NoneInFlight /\ Deploy(1, DirectCompare, c) /\ UNCHANGED <<lastEvent, storeVars>>
    \/ \E ok, m \in BOOLEAN : MkdirDone(1, ok, m, NoGit) /\ UNCHANGED <<lastEvent, storeVars>>
    \/ \E ok, e \in BOOLEAN : LsDone(1, ok, e) /\ UNCHANGED <<lastEvent, storeVars>>
    \/ \E ok \in BOOLEAN, l \in LocalTrees, r \in RemoteListings :
            Md5sumDone(1, ok, l, r) /\ UNCHANGED <<lastEvent, storeVars>>
    \/ \E ok \in BOOLEAN : RmDone(1, ok) /\ UNCHANGED <<lastEvent, storeVars>>
    \/ \E ok \in BOOLEAN : MkdirsDone(1, ok) /\ UNCHANGED <<lastEvent, storeVars>>
    \/ \E ok \in BOOLEAN : PutFilesDone(1, ok) /\ UNCHANGED <<lastEvent, storeVars>>
    \/ \E ok \in BOOLEAN : PutDirectoryDone(1, ok, {}) /\ UNCHANGED <<lastEvent, storeVars>>
    \/ \E ok \in BOOLEAN : RmdirDone(1, ok) /\ UNCHANGED <<lastEvent, storeVars>>

SpecCompare == InitCompare /\ [][NextCompare]_vars

\* The staged and unstaged strategies over the change lists of a.txt and
\* b.txt, for a workspace whose deploy location is set, while the two files
\* change.
NextGit ==
    \/ \E uri \in FileUris : OnDidChange(uri) /\ UNCHANGED <<lastEvent, storeVars>>
    \/ \E g \in BOOLEAN : NoneInFlight /\ LaunchDeploy(1, "w1", g) /\ UNCHANGED <<lastEvent, storeVars>>
    \/ \E c, api \in BOOLEAN, method \in {"staged", "unstaged"} :
            LaunchMethods(1, c, FALSE, api, method) /\ UNCHANGED <<lastEvent, storeVars>>
    \/ \E p \in DirectParameters, c \in BOOLEAN :
            /\ p.method \in {"staged", "unstaged"}
            /\ NoneInFlight /\ Deploy(1, p, c) /\ UNCHANGED <<lastEvent, storeVars>>
    \/ \E ok \in BOOLEAN, git \in GitStates(Files) :
            MkdirDone(1, ok, FALSE, git) /\ UNCHANGED <<lastEvent, storeVars>>
    \/ \E ok \in BOOLEAN : PutFilesDone(1, ok) /\ UNCHANGED <<lastEvent, storeVars>>

SpecGit == InitConcurrent /\ [][NextGit]_vars

\* The strategy "all" with the transfers of a.txt and b.txt failing or not,
\* while the two files change.
NextBulk ==
    \/ \E uri \in FileUris : OnDidChange(uri) /\ UNCHANGED <<lastEvent, storeVars>>
    \/ \E g \in BOOLEAN : NoneInFlight /\ LaunchDeploy(1, "w1", g) /\ UNCHANGED <<lastEvent, storeVars>>
    \/ \E c \in BOOLEAN, method \in {"all", "cancel"} :
            LaunchMethods(1, c, FALSE, FALSE, method) /\ UNCHANGED <<lastEvent, storeVars>>
    \/ \E p \in DirectParameters, c \in BOOLEAN :
            /\ p.method = "all"
            /\ NoneInFlight /\ Deploy(1, p, c) /\ UNCHANGED <<lastEvent, storeVars>>
    \/ \E ok \in BOOLEAN : MkdirDone(1, ok, FALSE, NoGit) /\ UNCHANGED <<lastEvent, storeVars>>
    \/ \E ok \in BOOLEAN, failed \in SUBSET Files :
            PutDirectoryDone(1, ok, failed) /\ UNCHANGED <<lastEvent, storeVars>>

SpecBulk == InitConcurrent /\ [][NextBulk]_vars

\* ------------------------------------------------------------- properties
Folder(d) == parameters[d].workspaceFolder

\* deploy has been entered by the invocation of slot d and has not returned
InFlight(d) == deployRet[d] = "pending"

\* this step is the return of deploy in slot d
DeployReturns(d) == deployRet[d] = "pending" /\ deployRet'[d] \in {"true", "false"}
DeployReturnsTrue(d) == deployRet[d] = "pending" /\ deployRet'[d] = "true"
DeployReturnsFalse(d) == deployRet'[d] = "false" /\ (deployRet[d] # "false" \/ pc[d] # pc'[d])

Issued(d, op) == \E i \in 1..Len(remoteLog[d]) : remoteLog[d][i] = op

\* C1: a path recorded by a watch event while a deployment is in flight
\* (pending when deploy returns, not pending when it was entered) is still
\* pending after that deployment has returned true.
C1_MidDeployEventKept ==
    [][\A d \in Slots :
          DeployReturnsTrue(d) =>
              (workspaceChanges[Folder(d)] \ pendingAtStart[d]) \subseteq workspaceChanges'[Folder(d)]]_vars

\* C2 as stated: the files a "changed" run hands to putFiles are the kept
\* paths of the pending set as it was when deploy was entered.
C2_SnapshotAtInvocation ==
    \A d \in Slots :
        (parameters[d].method = "changed" /\ pc[d] = "putFiles") =>
            uploads[d] = {f \in pendingAtStart[d] : KeepsChanged(parameters[d].ignoreRules, f)}

\* C2 amended: the files a "changed" run hands to putFiles are the kept paths
\* of the pending set as it is when the strategy starts, after the remote
\* directory was created, and no step taken while putFiles is outstanding
\* changes them.
C2_SnapshotAtStrategy ==
    [][\A d \in Slots :
          parameters[d].method = "changed" =>
              /\ (pc[d] = "mkdir" /\ pc'[d] = "putFiles") =>
                    uploads'[d] = {f \in workspaceChanges[Folder(d)] :
                                        KeepsChanged(parameters[d].ignoreRules, f)}
              /\ pc[d] = "putFiles" => uploads'[d] = uploads[d]]_vars

\* a "changed" run is uploading a.txt, recorded while the directory was being
\* created, and b.txt, not ignored, was recorded after the strategy started
C2_Witness ==
    /\ pc[1] = "putFiles" /\ parameters[1].method = "changed"
    /\ parameters[1].ignoreRules = DefaultRules
    /\ pendingAtStart[1] = {} /\ uploads[1] = {FileA}
    /\ workspaceChanges[Folder(1)] = {FileA, FileB}

\* C3: in the step in which deploy returns true, whatever the strategy, the
\* pending set of its workspace is left empty.
C3_TrueReturnClears ==
    [][\A d \in Slots : DeployReturnsTrue(d) => workspaceChanges'[Folder(d)] = {}]_vars

\* deploy has returned true after uploading the two pending paths, and the
\* pending set is empty
C3_Witness ==
    /\ pc[1] = "idle" /\ deployRet[1] = "true" /\ parameters[1].method = "changed"
    /\ uploads[1] = {FileA, FileB} /\ remoteLog[1] = <<"mkdir", "putFiles">>
    /\ workspaceChanges[Folder(1)] = {}

\* C4: no step of a deploy invocation other than its return of true removes
\* (or adds) a pending path; in particular the return of false leaves every
\* pending set as it was.
C4_FailureKeepsChanges ==
    [][\A d \in Slots :
          ((pc'[d] # pc[d] \/ DeployReturnsFalse(d)) /\ ~DeployReturnsTrue(d)) =>
              workspaceChanges' = workspaceChanges]_vars

\* a "changed" run whose transfer failed has returned false and the paths it
\* tried to upload are still pending
C4_Witness ==
    /\ pc[1] = "idle" /\ deployRet[1] = "false" /\ failure[1] = Rejected
    /\ parameters[1].method = "changed" /\ remoteLog[1] = <<"mkdir", "putFiles">>
    /\ uploads[1] = {FileA, FileB} /\ workspaceChanges[Folder(1)] = {FileA, FileB}

\* C5: entering deploy sets the button to the working text, every return of
\* deploy, true or false, sets it to the base text, and it shows the base
\* text whenever no deploy invocation is in flight.
C5_BusyIndicator ==
    /\ []((\A d \in Slots : ~InFlight(d)) => buttonText = BUTTON_BASE)
    /\ [][\A d \in Slots :
            /\ (~InFlight(d) /\ InFlight(d)') => buttonText' = BUTTON_WORKING
            /\ DeployReturns(d) => buttonText' = BUTTON_BASE]_vars

\* two invocations have ended, one true and one false, and the button shows
\* the base text
C5_Witness ==
    /\ deployRet[1] = "false" /\ deployRet[2] = "true" /\ failure[1] = Rejected
    /\ buttonText = BUTTON_BASE

\* the invocation of slot d is running its strategy
Transferring(d) ==
    pc[d] \in {"putFiles", "putDirectory", "ls", "md5sum", "rm", "mkdirs", "rmdir"}

\* C6: no two invocations run a strategy for the same workspace at the same
\* time.
C6_OneDeployPerWorkspace ==
    \A d, e \in Slots :
        (d # e /\ Transferring(d) /\ Transferring(e)) => Folder(d) # Folder(e)

C8_RelativePathFails ==
    \A d \in Slots :
        (deployRet[d] # "none" /\ ~StartsWithSlash(parameters[d].remotePath)) =>
            /\ ~Issued(d, "putFiles") /\ ~Issued(d, "putDirectory")
            /\ deployRet[d] # "true"

\* C9: with a remote path that is not absolute putDirectory is never issued;
\* deploy with the strategy "all" issues nothing but the mkdir and returns
\* false, with the invalid-path error unless the mkdir itself failed.
C9_BulkRelativePathFails ==
    \A d \in Slots :
        (deployRet[d] # "none" /\ ~StartsWithSlash(parameters[d].remotePath)) =>
            /\ ~Issued(d, "putDirectory")
            /\ parameters[d].method = "all" =>
                  /\ pc[d] \in {"mkdir", "idle"}
                  /\ deployRet[d] \in {"pending", "false"}
                  /\ deployRet[d] = "false" => failure[d] \in {InvalidPath, NotConnected, Rejected}
                  /\ failure[d] \in {InvalidPath, Rejected} => remoteLog[d] = <<"mkdir">>

\* the strategy "all" has failed on a relative path with the invalid-path
\* error, after the mkdir and nothing else
C9_Witness ==
    /\ pc[1] = "idle" /\ parameters[1].method = "all"
    /\ parameters[1].remotePath = RelativePath
    /\ deployRet[1] = "false" /\ failure[1] = InvalidPath /\ remoteLog[1] = <<"mkdir">>

\* C10: the persisted remote path of every workspace is unset or absolute.
C10_StoredPathAbsolute ==
    \A w \in Workspaces : deployment[w] = Unset \/ StartsWithSlash(deployment[w])

\* the resource of a path of workspace w1 under a scheme
UriOf(scheme, path) == [scheme |-> scheme, folder |-> "w1", path |-> path]

\* the path lies under the .git directory of its workspace
UnderVcsDirectory(path) == \E i \in 1..Len(path) : path[i] = ".git"

\* a resource the tracker must not record
Untracked(uri) == UnderVcsDirectory(uri.path) \/ uri.scheme \in {"member", "streamfile"}

\* this step is a segment of a watch event handler for uri
EventFor(uri) ==
    \/ OnDidChange(uri)
    \/ OnDidCreate(uri)
    \/ \E t \in FileTypes : OnDidCreateStat(uri, t)
    \/ OnDidDelete(uri)

\* C11: no pending set ever contains a path under the .git directory, and no
\* segment of a handler of a changed, created or deleted event for a resource
\* under .git or of the member or streamfile scheme changes any pending set.
C11_UntrackedNeverRecorded ==
    /\ [](\A w \in Workspaces : \A p \in workspaceChanges[w] : ~UnderVcsDirectory(p))
    /\ [][\A uri \in Uris :
            (Untracked(uri) /\ EventFor(uri)) => workspaceChanges' = workspaceChanges]_vars

\* .git/HEAD was changed, a member deleted and a stream file created (its stat
\* answered) while a.txt was pending, and a.txt alone is pending
C11_Witness ==
    /\ lastEvent[UriOf("file", GitHead)] = "changed"
    /\ lastEvent[UriOf("member", FileA)] = "deleted"
    /\ lastEvent[UriOf("streamfile", FileA)] = "created"
    /\ lastEvent[UriOf("file", FileA)] = "changed"
    /\ lastEvent[UriOf("file", FileB)] = "none"
    /\ statPending = {}
    /\ workspaceChanges["w1"] = {FileA}

\* C12: when the last event delivered for a file is `deleted` and no handler
\* is suspended (no stat is outstanding), the file's path is not pending.
C12_DeletedLastNotPending ==
    \A uri \in FileUris :
        (lastEvent[uri] = "deleted" /\ statPending = {}) =>
            uri.path \notin workspaceChanges[uri.folder]

\* C13: the segment of the created handler before the stat adds nothing; the
\* segment after it adds nothing when stat reported a directory (or failed)
\* and records the path of a tracked resource when stat reported a file.
C13_CreatedNeedsRegularFile ==
    [][\A uri \in Uris :
          /\ OnDidCreate(uri) => workspaceChanges' = workspaceChanges
          /\ \A t \in FileTypes \ {"File"} :
                OnDidCreateStat(uri, t) => workspaceChanges' = workspaceChanges
          /\ (OnDidCreateStat(uri, "File") /\ HasChangesMap(uri)) =>
                workspaceChanges' = [workspaceChanges EXCEPT ![uri.folder] = @ \cup {uri.path}]]_vars

\* a.txt and b.txt were created and both stats answered: a.txt, a file, is
\* pending and b.txt, not reported as a file, is not
C13_Witness ==
    /\ lastEvent[UriOf("file", FileA)] = "created"
    /\ lastEvent[UriOf("file", FileB)] = "created"
    /\ statPending = {}
    /\ workspaceChanges["w1"] = {FileA}

\* the pending sets of the folders other than w are left as they are
OthersUnchanged(w) ==
    \A v \in TwoWorkspaces \ {w} : workspaceChanges'[v] = workspaceChanges[v]

\* C14: a segment of a watch event handler for a file of one folder leaves
\* the pending set of every other folder unchanged, and the return of true
\* of a deployment of one folder empties that folder's pending set and leaves
\* the pending set of every other folder unchanged.
C14_PerWorkspaceScope ==
    [][/\ \A uri \in WorkspaceUris : EventFor(uri) => OthersUnchanged(uri.folder)
       /\ \A d \in Slots :
             DeployReturnsTrue(d) =>
                 (workspaceChanges'[Folder(d)] = {} /\ OthersUnchanged(Folder(d)))]_vars

\* w1 was deployed with "changed", uploading a.txt, and deploy returned true:
\* w1 has nothing pending and the two files of w2 still are
C14_Witness ==
    /\ pc[1] = "idle" /\ deployRet[1] = "true" /\ Folder(1) = "w1"
    /\ parameters[1].method = "changed" /\ uploads[1] = {FileA}
    /\ workspaceChanges["w1"] = {} /\ workspaceChanges["w2"] = {FileA, FileB}

\* the local files the compare strategy enumerates for the invocation
Enumerated(d, local) == LocalFiles(local, parameters[d].ignoreRules)

ExampleLocal == (FileA :> "H1") @@ (FileB :> "H2")
ExampleRemote == (FileA :> "H1") @@ (FileC :> "H3")

\* C15: in the step that makes the plan from the listing of a non-empty remote
\* tree, the uploads are the enumerated local files with no remote entry or
\* with a hash other than the entry's, and the deletions are the remote
\* entries matching no enumerated local file; local {a.txt:H1, b.txt:H2} and
\* remote {a.txt:H1, c.txt:H3} give uploads {b.txt} and deletions {c.txt}.
C15_ComparePlan ==
    [][\A d \in Slots :
          /\ \A l \in LocalTrees, r \in RemoteListings :
                Md5sumDone(d, TRUE, l, r) =>
                    /\ uploads'[d] = {f \in Enumerated(d, l) :
                                          (\A e \in DOMAIN r : e # f) \/ r[f] # l[f]}
                    /\ toDelete'[d] = {e \in DOMAIN r : \A f \in Enumerated(d, l) : f # e}
          /\ (Md5sumDone(d, TRUE, ExampleLocal, ExampleRemote)
                  /\ parameters[d].ignoreRules = DefaultRules) =>
                (uploads'[d] = {FileB} /\ toDelete'[d] = {FileC})]_vars

\* the plan of the example has been made: b.txt is to be uploaded, c.txt
\* deleted, and the removal is outstanding
C15_Witness ==
    /\ pc[1] = "rm" /\ parameters[1].method = "compare"
    /\ parameters[1].ignoreRules = DefaultRules
    /\ uploads[1] = {FileB} /\ toDelete[1] = {FileC}
    /\ remoteLog[1] = <<"mkdir", "ls", "md5sum", "rm">>

\* C16: when the local tree and the remote listing are the same mapping of
\* path to hash, whatever the ignore rules of the invocation, the plan made
\* is empty and the step issues no removal, folder creation or upload.
C16_IdenticalTreesEmptyPlan ==
    [][\A d \in Slots, t \in LocalTrees \ {<<>>} :
          Md5sumDone(d, TRUE, t, t) =>
              /\ uploads'[d] = {} /\ toDelete'[d] = {}
              /\ remoteLog'[d][Len(remoteLog'[d])] \notin {"rm", "mkdirs", "putFiles"}]_vars

\* the invocation runs the compare strategy and has asked for the md5 listing
\* (the remote directory was not empty)
Comparing(d) == parameters[d].method = "compare" /\ Issued(d, "md5sum")

\* the place of an operation in the order deletions, folders, uploads, pruning
Rank(op) ==
    CASE op = "rm" -> 1 [] op = "mkdirs" -> 2 [] op = "putFiles" -> 3 [] op = "rmdir" -> 4
      [] OTHER -> 0

\* C17: in a compare run over a non-empty remote directory the operations
\* after the md5 listing are issued in the order rm, mkdirs, putFiles, rmdir,
\* each at most once; the only operation that can be outstanding is the last
\* one issued; putFiles is issued right after mkdirs; once the pruning is
\* issued rm was issued exactly when there are deletions and mkdirs and
\* putFiles exactly when there are uploads; and a run that returns true has
\* issued the pruning last, whatever the plan.
C17_CompareOrder ==
    \A d \in Slots :
        Comparing(d) =>
            LET log == remoteLog[d]
                n == Len(log)
            IN  /\ SubSeq(log, 1, 3) = <<"mkdir", "ls", "md5sum">>
                /\ \A i \in 4..n : Rank(log[i]) > 0
                /\ \A i, j \in 4..n : i < j => Rank(log[i]) < Rank(log[j])
                /\ pc[d] # "idle" => pc[d] = log[n]
                /\ \A i \in 4..n : log[i] = "putFiles" => log[i - 1] = "mkdirs"
                /\ Issued(d, "rmdir") =>
                      /\ Issued(d, "rm") <=> toDelete[d] # {}
                      /\ Issued(d, "mkdirs") <=> uploads[d] # {}
                      /\ Issued(d, "putFiles") <=> uploads[d] # {}
                /\ deployRet[d] = "true" => log[n] = "rmdir"

\* a compare run with a deletion and an upload has returned true after the
\* four operations, in their order
C17_Witness ==
    /\ pc[1] = "idle" /\ deployRet[1] = "true" /\ parameters[1].method = "compare"
    /\ toDelete[1] = {FileC} /\ uploads[1] = {FileB}
    /\ remoteLog[1] = <<"mkdir", "ls", "md5sum", "rm", "mkdirs", "putFiles", "rmdir">>

\* C18: the step in which a compare run learns that the remote directory has
\* no entries issues putDirectory and nothing else (or, the connection gone,
\* fails without issuing anything), and a compare run that has issued
\* putDirectory has issued, in all, the mkdir of the target, the count and
\* that one putDirectory: no md5 listing, removal, folder batch or pruning.
C18_EmptyRemoteDelegates ==
    /\ [](\A d \in Slots :
            (parameters[d].method = "compare" /\ Issued(d, "putDirectory")) =>
                remoteLog[d] = <<"mkdir", "ls", "putDirectory">>)
    /\ [][\A d \in Slots :
            (LsDone(d, TRUE, TRUE) /\ StartsWithSlash(parameters[d].remotePath)) =>
                \/ remoteLog'[d] = <<"mkdir", "ls", "putDirectory">> /\ pc'[d] = "putDirectory"
                \/ remoteLog'[d] = <<"mkdir", "ls">> /\ failure'[d] = NotConnected]_vars

\* a compare run over an empty remote directory has returned true after the
\* directory transfer
C18_Witness ==
    /\ pc[1] = "idle" /\ deployRet[1] = "true" /\ parameters[1].method = "compare"
    /\ remoteLog[1] = <<"mkdir", "ls", "putDirectory">>
    /\ uploads[1] = {} /\ toDelete[1] = {}

\* the statuses of git.d.ts that say the file was deleted: INDEX_DELETED in
\* the index, DELETED in the working tree
DeletedStatuses == {2, Status_DELETED}

\* the change list of the chosen change type
ChosenChanges(d, git) ==
    IF parameters[d].method = "staged" THEN git.indexChanges ELSE git.workingTreeChanges

\* C19: a staged or unstaged run never issues a removal, and the step that
\* starts the strategy, for a repository rooted at the workspace and an
\* absolute remote path, makes the upload list the files of the chosen change
\* list whose status is not a deleted one.
C19_GitUploadsNotDeleted ==
    /\ [](\A d \in Slots :
            parameters[d].method \in {"staged", "unstaged"} => ~Issued(d, "rm"))
    /\ [][\A d \in Slots, git \in GitStates(Files) :
            (/\ parameters[d].method \in {"staged", "unstaged"}
             /\ git.repositories = "workspace"
             /\ StartsWithSlash(parameters[d].remotePath)
             /\ MkdirDone(d, TRUE, FALSE, git)) =>
                uploads'[d] = {f \in DOMAIN ChosenChanges(d, git) :
                                    ChosenChanges(d, git)[f] \notin DeletedStatuses}]_vars

\* C20: the step that starts a staged or unstaged strategy, for a repository
\* rooted at the workspace whose chosen change list holds nothing but deleted
\* files (and an absolute remote path), issues no transfer and is the return
\* of true of deploy.
C20_GitNothingToDeploy ==
    [][\A d \in Slots, git \in GitStates(Files) :
          (/\ parameters[d].method \in {"staged", "unstaged"}
           /\ git.repositories = "workspace"
           /\ StartsWithSlash(parameters[d].remotePath)
           /\ \A f \in DOMAIN ChosenChanges(d, git) :
                 ChosenChanges(d, git)[f] \in DeletedStatuses
           /\ MkdirDone(d, TRUE, FALSE, git)) =>
              /\ deployRet'[d] = "true"
              /\ remoteLog'[d] = <<"mkdir">>
              /\ uploads'[d] = {}]_vars

\* repositories are open, none of them rooted at the workspace
OtherGit == [repositories |-> "other", indexChanges |-> <<>>, workingTreeChanges |-> <<>>]

\* C21: the step that starts the strategy after the target directory was
\* created is, for a staged or unstaged run with no repository open or none
\* rooted at the workspace, and for a compare run on a host without md5sum,
\* the return of false of deploy, with the matching error logged, and the
\* invocation has issued nothing but the mkdir of the target directory.
C21_MissingCapabilityFails ==
    [][\A d \in Slots :
          pc[d] = "mkdir" =>
              /\ \A git \in {NoGit, OtherGit}, m \in BOOLEAN :
                    (/\ parameters[d].method \in {"staged", "unstaged"}
                     /\ git.repositories # "workspace"
                     /\ MkdirDone(d, TRUE, m, git)) =>
                        /\ deployRet'[d] = "false" /\ remoteLog'[d] = <<"mkdir">>
                        /\ uploads'[d] = {}
                        /\ failure'[d] = IF git.repositories = "none" THEN NoRepositories
                                          ELSE NoRepository
              /\ \A git \in {NoGit, OtherGit} :
                    (parameters[d].method = "compare" /\ MkdirDone(d, TRUE, FALSE, git)) =>
                        /\ deployRet'[d] = "false" /\ remoteLog'[d] = <<"mkdir">>
                        /\ uploads'[d] = {} /\ failure'[d] = NoMd5sum]_vars

\* a compare run on a host without md5sum has returned false having issued
\* the mkdir only
C21_Witness ==
    /\ pc[1] = "idle" /\ parameters[1].method = "compare"
    /\ deployRet[1] = "false" /\ failure[1] = NoMd5sum
    /\ remoteLog[1] = <<"mkdir">> /\ uploads[1] = {}

\* C22: whichever files putDirectory reports as failed through tick, when it
\* resolves the step is the return of true of deploy, with no error logged by
\* deploy and the failed files logged by tick; and putDirectory is only ever
\* outstanding for an absolute remote path.
C22_BulkFailuresDoNotAbort ==
    /\ [](\A d \in Slots :
            pc[d] = "putDirectory" => StartsWithSlash(parameters[d].remotePath))
    /\ [][\A d \in Slots, failed \in SUBSET Files :
            PutDirectoryDone(d, TRUE, failed) =>
                /\ deployRet'[d] = "true" /\ failure'[d] = "none"
                /\ failedTicks'[d] = failed
                /\ remoteLog'[d] = remoteLog[d]]_vars

\* a bulk transfer in which a.txt failed and b.txt did not has made deploy
\* return true
C22_Witness ==
    /\ pc[1] = "idle" /\ parameters[1].method = "all"
    /\ parameters[1].remotePath = AbsolutePath
    /\ failedTicks[1] = {FileA} /\ deployRet[1] = "true" /\ failure[1] = "none"
    /\ remoteLog[1] = <<"mkdir", "putDirectory">>

\* the places at which an invocation awaits a remote operation
RemotePlaces == {"mkdir", "putFiles", "putDirectory", "ls", "md5sum", "rm", "mkdirs", "rmdir"}

\* C23: the first remote operation of an invocation is the mkdir of the
\* target directory, issued once; while it is outstanding nothing else has
\* been issued; and an invocation that awaits a remote operation awaits the
\* last one it issued, so every earlier one has completed and no two are
\* outstanding.
C23_Sequential ==
    \A d \in Slots :
        LET log == remoteLog[d] IN
        /\ log # <<>> => (log[1] = "mkdir" /\ \A i \in 2..Len(log) : log[i] # "mkdir")
        /\ pc[d] = "mkdir" => log = <<"mkdir">>
        /\ pc[d] \in RemotePlaces => (log # <<>> /\ pc[d] = log[Len(log)])
        /\ pc[d] \in RemotePlaces \cup {"idle", "launch"}
        /\ pc[d] = "launch" => log = <<>>

\* a compare run awaits the folder batch, the mkdir, the count and the md5
\* listing having completed one after the other
C23_Witness ==
    /\ pc[1] = "mkdirs" /\ parameters[1].method = "compare"
    /\ remoteLog[1] = <<"mkdir", "ls", "md5sum", "mkdirs">>
    /\ deployRet[1] = "pending"

\* the errors that can be raised while the directory is created or the
\* strategy runs
DeployErrors ==
    {NotConnected, InvalidPath, NoUploadTarget, NoRepositories, NoRepository, NoMd5sum,
     Rejected}

\* C24: every step that ends a deploy invocation makes it return true or
\* false, false with the error logged exactly when an error was raised;
\* an invocation that returned true issued the mkdir and raised nothing; and
\* no invocation is ever left in another outcome.
C24_DeployCatchesErrors ==
    /\ [](\A d \in Slots :
            /\ deployRet[d] \in {"none", "pending", "true", "false"}
            /\ deployRet[d] = "pending" <=> pc[d] \in RemotePlaces
            /\ deployRet[d] = "false" <=> failure[d] \in DeployErrors
            /\ deployRet[d] \in {"none", "pending", "true"} => failure[d] = "none"
            /\ deployRet[d] = "true" => (remoteLog[d] # <<>> /\ remoteLog[d][1] = "mkdir"))
    /\ [][\A d \in Slots :
            (pc[d] \in RemotePlaces /\ pc'[d] \notin RemotePlaces) =>
                (pc'[d] = "idle" /\ deployRet'[d] \in {"true", "false"})]_vars

\* deploy was called without a connection and returned false, the error
\* logged and nothing issued
C24_Witness ==
    /\ pc[1] = "idle" /\ deployRet[1] = "false" /\ failure[1] = NotConnected
    /\ remoteLog[1] = <<>> /\ launchRet[1] = "none"
    /\ buttonText = BUTTON_BASE

\* the pending paths the ignore rules of the invocation do not exclude: all
\* of them when no rules were supplied
NotExcluded(d, pending) ==
    {f \in pending :
        parameters[d].ignoreRules = NoRules \/ ~Ignores(parameters[d].ignoreRules, f)}

\* C25: the step that starts the "changed" strategy hands putFiles exactly the
\* pending paths of the workspace that the ignore rules do not exclude (every
\* pending path when there are no rules), and with nothing pending it issues
\* no transfer and is the return of true of deploy.
C25_ChangedUploadsPending ==
    [][\A d \in Slots :
          (parameters[d].method = "changed" /\ pc[d] = "mkdir") =>
              /\ pc'[d] = "putFiles" =>
                    uploads'[d] = NotExcluded(d, workspaceChanges[Folder(d)])
              /\ (workspaceChanges[Folder(d)] = {} /\ MkdirDone(d, TRUE, FALSE, NoGit)) =>
                    (deployRet'[d] = "true" /\ remoteLog'[d] = <<"mkdir">>)]_vars

\* the run of slot d, which is returning, has dealt with the pending path f:
\* its ignore rules exclude it, it was on the list putFiles transferred, it
\* went through the hash comparison (every path is counted as compared in a
\* run that asked for the md5 listing), or putDirectory transferred it
DealtWith(d, f) ==
    \/ parameters[d].ignoreRules # NoRules /\ Ignores(parameters[d].ignoreRules, f)
    \/ Issued(d, "putFiles") /\ f \in uploads[d]
    \/ Issued(d, "md5sum")
    \/ Issued(d, "putDirectory") /\ f \notin failedTicks'[d]

\* C26: every path that the return of true of a deployment removes from the
\* pending set of its workspace was dealt with by that deployment.
C26_NoChangeDiscarded ==
    [][\A d \in Slots :
          DeployReturnsTrue(d) =>
              \A f \in workspaceChanges[Folder(d)] \ workspaceChanges'[Folder(d)] :
                  DealtWith(d, f)]_vars

\* ------------------------------------------------ ConnectionManager.storeNew

\* getAll(): the value of the setting as the extension host has it; the
\* caller's changes to the array it gets do not reach the setting.
getAll == connections

\* storeNew up to its await: reads the list, takes its length as the new
\* index, pushes the connection on its own list and requests the update.
StoreNew(c, data) ==
    /\ storing[c].pc = "idle"
    /\ LET list == getAll
           newId == Len(list)
       IN storing' = [storing EXCEPT ![c] =
                         [pc |-> "setAll", data |-> data,
                          connections |-> Append(list, data), newId |-> newId]]
    /\ setAllQueue' = Append(setAllQueue, c)
    /\ UNCHANGED connections

\* The oldest outstanding update ends: written, the setting is the list of
\* the call and storeNew returns {index: newId, data}; rejected, storeNew
\* throws.
SetAllDone(ok) ==
    /\ setAllQueue # <<>>
    /\ LET c == Head(setAllQueue)
       IN /\ connections' = IF ok THEN storing[c].connections ELSE connections
          /\ storing' = [storing EXCEPT ![c].pc = IF ok THEN "returned" ELSE "threw"]
    /\ setAllQueue' = Tail(setAllQueue)

deployVars == <<workspaceChanges, buttonText, deployment, statPending, setLocation,
                slotVars, lastEvent>>

NextConnections ==
    \/ \E c \in StoreCalls, data \in ConnectionDatas :
          StoreNew(c, data) /\ UNCHANGED deployVars
    \/ \E ok \in BOOLEAN : SetAllDone(ok) /\ UNCHANGED deployVars

SpecConnections == Init /\ [][NextConnections]_vars

\* the call c of storeNew has returned {index, data}
Returned(c) == storing[c].pc = "returned"

\* C27: once no update is outstanding, every connection a call of storeNew
\* returned is in the setting at the index the call returned, and no two
\* calls returned the same index.
C27_StoredAtReturnedIndex ==
    setAllQueue = <<>> =>
        /\ \A c \in StoreCalls :
              Returned(c) =>
                  /\ storing[c].newId + 1 <= Len(connections)
                  /\ connections[storing[c].newId + 1] = storing[c].data
        /\ \A c1, c2 \in StoreCalls :
              (Returned(c1) /\ Returned(c2) /\ c1 # c2) =>
                  storing[c1].newId # storing[c2].newId

====
